---- MODULE Spec2Model ----
(***************************************************************************)
(* Python Sandbox Service (src/python_sandbox/app.py).                     *)
(*                                                                         *)
(* The model covers the execution engine execute_python_code (the caller   *)
(* side and the execution thread it starts), the process-wide sys.stdout   *)
(* and sys.stderr that contextlib.redirect_stdout/redirect_stderr assign,  *)
(* and the /execute route with its two handlers.  Request handlers run     *)
(* concurrently (one thread per request), each engine call starts one more *)
(* thread, and every step of every thread interleaves with the others.     *)
(*                                                                         *)
(* Text is modelled as a sequence of tokens; the token a unit's code       *)
(* writes is the id of the engine call that runs it, so a buffer shows     *)
(* whose code wrote each piece of it.  Time is kept relative to now: each  *)
(* call carries the seconds elapsed since its start_time, what the system  *)
(* clock shows to have elapsed, and the seconds left of its join timeout,  *)
(* each sleeping thread the seconds left of its sleep, and the clock       *)
(* advances by the time left of a pending wait.                            *)
(***************************************************************************)
EXTENDS Integers, Sequences, FiniteSets, TLC

\* ---------------------------------------------------------------- bounds
\* number of concurrent HTTP requests
MaxReqs == 2
\* number of engine calls (execute_python_code invocations) over a run
MaxCalls == 2
\* the seconds by which the system clock may be set back while time passes
MaxSetBack == 2

\* ------------------------------------------------------ program constants
\* handle_snowflake_format: timeout = 600
BatchTimeout == 600
\* handle_legacy_format: data.get('timeout', 30)
DefaultTimeout == 30
\* handle_legacy_format: timeout > 300
MaxLegacyTimeout == 300
\* the seconds a "sleep" statement of the submitted code sleeps (test 7)
SleepSeconds == 1

Reqs == 1..MaxReqs
Calls == 1..MaxCalls

\* ------------------------------------------------------------ exceptions
\* An exception object as the engine looks at it: its class name, str(e),
\* bool(e), isinstance(e, SyntaxError), isinstance(e, Exception).
NoException ==
    [type |-> "None", message |-> "", truthy |-> FALSE,
     is_syntax |-> FALSE, is_exception |-> FALSE]

\* compile() of code with a syntax defect, raised by exec() before any
\* statement runs
SyntaxErrorExc ==
    [type |-> "SyntaxError", message |-> "unterminated string literal",
     truthy |-> TRUE, is_syntax |-> TRUE, is_exception |-> TRUE]

\* print(1/0)
ZeroDivisionExc ==
    [type |-> "ZeroDivisionError", message |-> "division by zero",
     truthy |-> TRUE, is_syntax |-> FALSE, is_exception |-> TRUE]

\* class Empty(Exception): __len__ = lambda self: 0   -- defined and raised
\* by the submitted code; bool(e) is False
EmptyExc ==
    [type |-> "Empty", message |-> "", truthy |-> FALSE,
     is_syntax |-> FALSE, is_exception |-> TRUE]

\* sys.exit(): SystemExit derives from BaseException, not from Exception
SystemExitExc ==
    [type |-> "SystemExit", message |-> "", truthy |-> TRUE,
     is_syntax |-> FALSE, is_exception |-> FALSE]

\* -------------------------------------------------------- submitted code
\* A code string is named by its text; Prog gives what exec() does with it:
\* whether it compiles, and the statements it runs.
\*   "out"   print(...)            writes one token to sys.stdout
\*   "err"   sys.stderr.write(...) writes one token to sys.stderr
\*   "sleep" time.sleep(1)
\*   "loop"  while True: pass
\*   "zde"   1/0        "empty" raise Empty()       "exit" sys.exit()
Prog(code) ==
    CASE code = "print('x')" -> [compiles |-> TRUE, stmts |-> <<"out">>]
      [] code = "print('x'); print(1/0)" ->
            [compiles |-> TRUE, stmts |-> <<"out", "zde">>]
      [] code = "sys.stderr.write('w')" ->
            [compiles |-> TRUE, stmts |-> <<"err">>]
      [] code = "print('a" -> [compiles |-> FALSE, stmts |-> <<>>]
      [] code = "print('x'); while True: pass" ->
            [compiles |-> TRUE, stmts |-> <<"out", "loop">>]
      [] code = "time.sleep(1); print('x')" ->
            [compiles |-> TRUE, stmts |-> <<"sleep", "out">>]
      [] code = "print('x'); raise Empty()" ->
            [compiles |-> TRUE, stmts |-> <<"out", "empty">>]
      [] code = "print('x'); sys.exit()" ->
            [compiles |-> TRUE, stmts |-> <<"out", "exit">>]

RaisedBy(stmt) ==
    CASE stmt = "zde" -> ZeroDivisionExc
      [] stmt = "empty" -> EmptyExc
      [] stmt = "exit" -> SystemExitExc
      [] OTHER -> NoException

\* ------------------------------------------------------------ JSON values
\* What request.get_json() returns, as Python sees it.
JNull == [t |-> "null"]
JBool(b) == [t |-> "bool", b |-> b]
JInt(n) == [t |-> "int", n |-> n]
JFloat(n) == [t |-> "float", whole |-> n]
JStr(s) == [t |-> "str", s |-> s]
JArr(items) == [t |-> "array", items |-> items]
JObj(fields) == [t |-> "object", fields |-> fields]
\* a body that is no JSON text: request.get_json() raises BadRequest
NotJson == [t |-> "not json"]

\* bool(v)
Truthy(v) ==
    CASE v.t = "null" -> FALSE
      [] v.t = "bool" -> v.b
      [] v.t = "int" -> v.n # 0
      [] v.t = "float" -> TRUE
      [] v.t = "str" -> v.s # ""
      [] v.t = "array" -> v.items # <<>>
      [] v.t = "object" -> DOMAIN v.fields # {}

\* key in s, for the strings the model sends
IsSubstring(key, s) ==
    \/ s = key
    \/ key = "data" /\ s = "some data"

\* key in v: "true", "false", or "TypeError" (v is not a container)
Contains(key, v) ==
    CASE v.t = "object" -> IF key \in DOMAIN v.fields THEN "true" ELSE "false"
      [] v.t = "array" ->
            IF \E k \in DOMAIN v.items :
                   v.items[k].t = "str" /\ v.items[k].s = key
            THEN "true" ELSE "false"
      [] v.t = "str" -> IF IsSubstring(key, v.s) THEN "true" ELSE "false"
      [] OTHER -> "TypeError"

\* isinstance(v, list), isinstance(v, str), isinstance(v, int): a Python
\* bool is an int
IsList(v) == v.t = "array"
IsStr(v) == v.t = "str"
IsInt(v) == v.t \in {"int", "bool"}

\* the number Python computes with for an int or a bool
IntValue(v) == IF v.t = "bool" THEN (IF v.b THEN 1 ELSE 0) ELSE v.n

\* ----------------------------------------------------------------- errors
\* result["error"]: None, a string, or a {type, message, traceback} dict.
\* A string is prefix + num + text + suffix-free message parts; the fields a
\* shape does not use keep their defaults.
ErrNull ==
    [shape |-> "null", prefix |-> "", num |-> 0, text |-> <<>>,
     type |-> "", message |-> "", traceback |-> ""]

\* f"Code execution timed out after {timeout} seconds"
TimeoutError(timeout) ==
    [ErrNull EXCEPT !.shape = "string",
                    !.prefix = "Code execution timed out after N seconds",
                    !.num = timeout]

\* f"Syntax Error: {str(e)}"
SyntaxErrorString(e) ==
    [ErrNull EXCEPT !.shape = "string", !.prefix = "Syntax Error: ",
                    !.message = e.message]

\* traceback.format_exc() in a thread that is handling the exception
\* handled (None when it is handling none): the text formatted from
\* sys.exc_info(), which ends with the exception's class and str()
FormatExc(handled) ==
    IF handled = NoException THEN "NoneType: None"
    ELSE "Traceback (most recent call last): " \o handled.type \o ": "
             \o handled.message

\* traceback.format_exc() as line 145 calls it: in the caller's thread and
\* outside any except block, so no exception is being handled there
FormatExcOutsideHandler == FormatExc(NoException)

\* {"type": type(e).__name__, "message": str(e), "traceback": format_exc()}
ErrorDetails(e) ==
    [ErrNull EXCEPT !.shape = "object", !.type = e.type,
                    !.message = e.message,
                    !.traceback = FormatExcOutsideHandler]

\* result["error"] = execution_state["error_output"]
StderrError(text) == [ErrNull EXCEPT !.shape = "string", !.text = text]

\* threading.Thread.start() when the process can start no more threads
ThreadStartExc ==
    [type |-> "RuntimeError", message |-> "can't start new thread",
     truthy |-> TRUE, is_syntax |-> FALSE, is_exception |-> TRUE]

\* (mutant) the fault reported as the text of the exception only
EngineFaultDetails_MessageOnly(e) ==
    [ErrNull EXCEPT !.shape = "string", !.message = e.message]

\* the error_details of lines 162-166: format_exc() is called in the except
\* block that handles e
EngineFaultDetails(e) ==
    [ErrNull EXCEPT !.shape = "object", !.type = e.type,
                    !.message = e.message,
                    !.traceback = FormatExc(e)]

UnknownStateError ==
    [ErrNull EXCEPT !.shape = "string",
                    !.prefix = "Execution completed with unknown state"]

CodeMustBeStringError ==
    [ErrNull EXCEPT !.shape = "string", !.prefix = "Code must be a string"]

\* ---------------------------------------------------------------- results
InitialResult ==
    [success |-> FALSE, output |-> <<>>, error |-> ErrNull,
     execution_time |-> 0]

InitialExecutionState ==
    [completed |-> FALSE, exception |-> NoException, output |-> <<>>,
     error_output |-> <<>>]

\* (mutant) stderr text reported, but not taken as a failure
ClassifyCompleted_StderrInformational(st) ==
    IF st.exception.truthy
    THEN IF st.exception.is_syntax
         THEN [InitialResult EXCEPT !.error = SyntaxErrorString(st.exception)]
         ELSE [InitialResult EXCEPT !.error = ErrorDetails(st.exception)]
    ELSE IF st.error_output # <<>>
         THEN [InitialResult EXCEPT !.success = TRUE,
                                    !.error = StderrError(st.error_output)]
         ELSE [InitialResult EXCEPT !.success = TRUE]

\* (mutant) stderr text not looked at
ClassifyCompleted_StderrIgnored(st) ==
    IF st.exception.truthy
    THEN IF st.exception.is_syntax
         THEN [InitialResult EXCEPT !.error = SyntaxErrorString(st.exception)]
         ELSE [InitialResult EXCEPT !.error = ErrorDetails(st.exception)]
    ELSE [InitialResult EXCEPT !.success = TRUE]

\* The branch on the finished thread's exception (lines 136-153)
ClassifyCompleted(st) ==
    IF st.exception.truthy
    THEN IF st.exception.is_syntax
         THEN [InitialResult EXCEPT !.error = SyntaxErrorString(st.exception)]
         ELSE [InitialResult EXCEPT !.error = ErrorDetails(st.exception)]
    ELSE IF st.error_output # <<>>
         THEN [InitialResult EXCEPT !.error = StderrError(st.error_output)]
         ELSE [InitialResult EXCEPT !.success = TRUE]

\* (mutant) a thread that ended without setting "completed" taken for a
\* timeout
ClassifyResult_UnknownIsTimeout(alive, st, timeout) ==
    IF alive \/ ~st.completed
    THEN [InitialResult EXCEPT !.error = TimeoutError(timeout)]
    ELSE [ClassifyCompleted(st) EXCEPT !.output = st.output]

\* (mutant) the timeout result carrying the output the thread has stored so
\* far
ClassifyResult_PartialOutput(alive, st, timeout) ==
    IF alive
    THEN [InitialResult EXCEPT !.error = TimeoutError(timeout),
                               !.output = st.output]
    ELSE IF st.completed
         THEN [ClassifyCompleted(st) EXCEPT !.output = st.output]
         ELSE [InitialResult EXCEPT !.error = UnknownStateError]

\* (mutant) the is_alive() test left out
ClassifyResult_NoAliveTest(alive, st, timeout) ==
    IF st.completed
    THEN [ClassifyCompleted(st) EXCEPT !.output = st.output]
    ELSE [InitialResult EXCEPT !.error = UnknownStateError]

\* What the caller makes of thread.is_alive() and execution_state after the
\* join (lines 131-158), execution_time apart
ClassifyResult(alive, st, timeout) ==
    IF alive
    THEN [InitialResult EXCEPT !.error = TimeoutError(timeout)]
    ELSE IF st.completed
         THEN [ClassifyCompleted(st) EXCEPT !.output = st.output]
         ELSE [InitialResult EXCEPT !.error = UnknownStateError]

\* ------------------------------------------------------------------ state
VARIABLES
    sys_stdout,       \* sys.stdout: 0 the process's stream, c call c's buffer
    sys_stderr,       \* sys.stderr, likewise
    stdout_buffer,    \* per call: the StringIO stdout_buffer
    stderr_buffer,    \* per call: the StringIO stderr_buffer
    execution_state,  \* per call: the dict the thread and the caller share
    thread,           \* per call: the execution thread
    call,             \* per call: the caller's side of execute_python_code
    req               \* per request: the handler of POST /execute

vars ==
    <<sys_stdout, sys_stderr, stdout_buffer, stderr_buffer,
      execution_state, thread, call, req>>

\* the process's own stream, what sys.stdout and sys.stderr are at start
ProcessStream == 0

InitialThread ==
    [pc |-> "unstarted", ip |-> 0, old_stdout |-> ProcessStream,
     old_stderr |-> ProcessStream, sleep_left |-> 0, exc |-> NoException,
     wrote_out |-> <<>>, ended_in_time |-> FALSE]

InitialCall ==
    [pc |-> "unused", code |-> "", timeout |-> 0, elapsed |-> 0, wall |-> 0,
     remaining |-> 0, owner |-> 0, row |-> 0, join_timed_out |-> FALSE,
     found_alive |-> FALSE,
     result |-> InitialResult]

NoResponse ==
    [status |-> 0, kind |-> "none", message |-> "", data |-> <<>>,
     result |-> InitialResult]

InitialRequest ==
    [pc |-> "idle", mode |-> "none", body |-> JNull, i |-> 0,
     results |-> <<>>, cur |-> 0, response |-> NoResponse]

Init ==
    /\ sys_stdout = ProcessStream
    /\ sys_stderr = ProcessStream
    /\ stdout_buffer = [c \in Calls |-> <<>>]
    /\ stderr_buffer = [c \in Calls |-> <<>>]
    /\ execution_state = [c \in Calls |-> InitialExecutionState]
    /\ thread = [c \in Calls |-> InitialThread]
    /\ call = [c \in Calls |-> InitialCall]
    /\ req = [r \in Reqs |-> InitialRequest]

\* ------------------------------------------------- the execution thread
\* thread.is_alive()
IsAlive(c) == thread[c].pc \notin {"unstarted", "dead"}

\* The token call c's code writes now: c while its caller still waits for
\* it, -c once execute_python_code has returned to the caller.
Token(c) == IF call[c].pc = "returned" THEN 0 - c ELSE c

\* stream.write(tok) on the stream a sys.stdout/sys.stderr lookup gave;
\* what goes to the process's own stream is not kept
WriteTo(buffers, stream, tok) ==
    IF stream = ProcessStream THEN buffers
    ELSE [buffers EXCEPT ![stream] = Append(@, tok)]

\* redirect_stdout(stdout_buffer).__enter__: remember sys.stdout, assign it
UnitEnterStdout(c) ==
    /\ thread[c].pc = "enter_stdout"
    /\ thread' = [thread EXCEPT ![c].old_stdout = sys_stdout,
                                ![c].pc = "enter_stderr"]
    /\ sys_stdout' = c
    /\ UNCHANGED <<sys_stderr, stdout_buffer, stderr_buffer,
                   execution_state, call, req>>

\* The thread after a step of its own: statements that touch nothing shared
\* (a raise, sys.exit(), running off the end of the code) are taken with
\* the step before them, and lead to the with block's exit.
Settled(code, t) ==
    LET stmts == Prog(code).stmts
        stmt == IF t.ip \in DOMAIN stmts THEN stmts[t.ip] ELSE "end"
    IN  IF t.pc = "exec" /\ stmt \in {"zde", "empty", "exit", "end"}
        THEN [t EXCEPT !.pc = "exit_stderr", !.exc = RaisedBy(stmt)]
        ELSE t

\* redirect_stderr(stderr_buffer).__enter__, then exec(code, ...): the
\* string is compiled first, and a syntax defect raises SyntaxError before
\* any statement runs
UnitEnterStderr(c) ==
    /\ thread[c].pc = "enter_stderr"
    /\ thread' = [thread EXCEPT ![c] =
                    IF Prog(call[c].code).compiles
                    THEN Settled(call[c].code,
                                 [@ EXCEPT !.old_stderr = sys_stderr,
                                           !.pc = "exec", !.ip = 1])
                    ELSE [@ EXCEPT !.old_stderr = sys_stderr,
                                   !.pc = "exit_stderr",
                                   !.exc = SyntaxErrorExc]]
    /\ sys_stderr' = c
    /\ UNCHANGED <<sys_stdout, stdout_buffer, stderr_buffer,
                   execution_state, call, req>>

\* the statement the thread is at
CurrentStmt(c) == Prog(call[c].code).stmts[thread[c].ip]

\* print(...): sys.stdout is looked up when the statement runs
UnitPrint(c) ==
    /\ thread[c].pc = "exec"
    /\ CurrentStmt(c) = "out"
    /\ stdout_buffer' = WriteTo(stdout_buffer, sys_stdout, Token(c))
    /\ thread' = [thread EXCEPT ![c] =
                    Settled(call[c].code,
                            [@ EXCEPT !.ip = @ + 1,
                                      !.wrote_out = Append(@, Token(c))])]
    /\ UNCHANGED <<sys_stdout, sys_stderr, stderr_buffer, execution_state,
                   call, req>>

\* sys.stderr.write(...)
UnitWriteStderr(c) ==
    /\ thread[c].pc = "exec"
    /\ CurrentStmt(c) = "err"
    /\ stderr_buffer' = WriteTo(stderr_buffer, sys_stderr, Token(c))
    /\ thread' = [thread EXCEPT ![c] =
                    Settled(call[c].code, [@ EXCEPT !.ip = @ + 1])]
    /\ UNCHANGED <<sys_stdout, sys_stderr, stdout_buffer, execution_state,
                   call, req>>

\* time.sleep(1) begins; "while True: pass" has no step at all
UnitSleep(c) ==
    /\ thread[c].pc = "exec"
    /\ CurrentStmt(c) = "sleep"
    /\ thread' = [thread EXCEPT ![c].pc = "sleeping",
                                ![c].sleep_left = SleepSeconds]
    /\ UNCHANGED <<sys_stdout, sys_stderr, stdout_buffer, stderr_buffer,
                   execution_state, call, req>>

\* time.sleep(1) returns once the second has passed
UnitWake(c) ==
    /\ thread[c].pc = "sleeping"
    /\ thread[c].sleep_left = 0
    /\ thread' = [thread EXCEPT ![c] =
                    Settled(call[c].code,
                            [@ EXCEPT !.pc = "exec", !.ip = @ + 1])]
    /\ UNCHANGED <<sys_stdout, sys_stderr, stdout_buffer, stderr_buffer,
                   execution_state, call, req>>

\* redirect_stderr.__exit__: sys.stderr = the stream remembered at __enter__
UnitExitStderr(c) ==
    /\ thread[c].pc = "exit_stderr"
    /\ sys_stderr' = thread[c].old_stderr
    /\ thread' = [thread EXCEPT ![c].pc = "exit_stdout"]
    /\ UNCHANGED <<sys_stdout, stdout_buffer, stderr_buffer,
                   execution_state, call, req>>

\* whether "except Exception" (line 117) catches what the code raised
CaughtByExcept(e) == e.is_exception

\* redirect_stdout.__exit__; then the raised exception, if any, reaches
\* "except Exception": a BaseException that is no Exception passes it and
\* ends the thread with execution_state untouched
UnitExitStdout(c) ==
    /\ thread[c].pc = "exit_stdout"
    /\ sys_stdout' = thread[c].old_stdout
    /\ thread' = [thread EXCEPT
                    ![c].pc = IF thread[c].exc = NoException
                              THEN "store_output"
                              ELSE IF CaughtByExcept(thread[c].exc)
                              THEN "store_exception"
                              ELSE "end"]
    /\ UNCHANGED <<sys_stderr, stdout_buffer, stderr_buffer,
                   execution_state, call, req>>

\* line 118: execution_state["exception"] = e
UnitStoreException(c) ==
    /\ thread[c].pc = "store_exception"
    /\ execution_state' = [execution_state EXCEPT
                             ![c].exception = thread[c].exc]
    /\ thread' = [thread EXCEPT ![c].pc = "store_output"]
    /\ UNCHANGED <<sys_stdout, sys_stderr, stdout_buffer, stderr_buffer,
                   call, req>>

\* line 113 or 119: execution_state["output"] = stdout_buffer.getvalue()
UnitStoreOutput(c) ==
    /\ thread[c].pc = "store_output"
    /\ execution_state' = [execution_state EXCEPT
                             ![c].output = stdout_buffer[c]]
    /\ thread' = [thread EXCEPT ![c].pc = "store_error_output"]
    /\ UNCHANGED <<sys_stdout, sys_stderr, stdout_buffer, stderr_buffer,
                   call, req>>

\* line 114 or 120: execution_state["error_output"] =
\* stderr_buffer.getvalue()
UnitStoreErrorOutput(c) ==
    /\ thread[c].pc = "store_error_output"
    /\ execution_state' = [execution_state EXCEPT
                             ![c].error_output = stderr_buffer[c]]
    /\ thread' = [thread EXCEPT ![c].pc = "store_completed"]
    /\ UNCHANGED <<sys_stdout, sys_stderr, stdout_buffer, stderr_buffer,
                   call, req>>

\* line 115 or 121: execution_state["completed"] = True
UnitStoreCompleted(c) ==
    /\ thread[c].pc = "store_completed"
    /\ execution_state' = [execution_state EXCEPT ![c].completed = TRUE]
    /\ thread' = [thread EXCEPT ![c].pc = "end"]
    /\ UNCHANGED <<sys_stdout, sys_stderr, stdout_buffer, stderr_buffer,
                   call, req>>

\* execute_code returns (or the uncaught exception leaves it): the thread is
\* no longer alive.  ended_in_time records that the join timeout had not
\* elapsed yet.
UnitEnd(c) ==
    /\ thread[c].pc = "end"
    /\ thread' = [thread EXCEPT
                    ![c].pc = "dead",
                    ![c].ended_in_time =
                        call[c].pc = "join" /\ call[c].remaining > 0]
    /\ UNCHANGED <<sys_stdout, sys_stderr, stdout_buffer, stderr_buffer,
                   execution_state, call, req>>

\* ------------------------------------------- execute_python_code, caller
\* the call slot the next execute_python_code invocation takes
FreeCalls == {c \in Calls : call[c].pc = "unused"}
NextCall == CHOOSE c \in FreeCalls : \A d \in FreeCalls : c <= d

\* (mutant) a concurrency ceiling: no call starts while a unit is alive
CanStart_OneUnitAtATime ==
    /\ FreeCalls # {}
    /\ \A c \in Calls : thread[c].pc \in {"unstarted", "dead"}

\* a call may start while a slot is free: the code starts its thread
\* whatever units are alive (lines 125-126)
CanStart == FreeCalls # {}

\* lines 39-58 and 125-129: result, start_time, buffers and execution_state
\* are set up, the thread is started and the caller enters thread.join.
\* owner and row say which request made the call, and for which row of its
\* batch (0 in single mode).
StartedCall(r, row, code, timeout) ==
    [InitialCall EXCEPT !.pc = "join", !.code = code, !.timeout = timeout,
                        !.elapsed = 0, !.remaining = timeout, !.owner = r,
                        !.row = row]

\* (mutant) thread.join() without a timeout
JoinReturns_NoTimeout(c) == ~IsAlive(c)

\* lines 160-170: thread.start() raises, the except block builds the
\* result and the call returns at once; no thread runs
FaultResult == [InitialResult EXCEPT !.error = EngineFaultDetails(ThreadStartExc)]

FaultedCall(r, row, code, timeout) ==
    [InitialCall EXCEPT !.pc = "returned", !.code = code,
                        !.timeout = timeout, !.owner = r, !.row = row,
                        !.result = FaultResult]

\* thread.join(timeout=timeout) returns: the thread has ended, or the
\* timeout has elapsed
JoinReturns(c) == ~IsAlive(c) \/ call[c].remaining = 0

Join(c) ==
    /\ call[c].pc = "join"
    /\ JoinReturns(c)
    /\ call' = [call EXCEPT ![c].pc = "check",
                            ![c].join_timed_out = IsAlive(c)]
    /\ UNCHANGED <<sys_stdout, sys_stderr, stdout_buffer, stderr_buffer,
                   execution_state, thread, req>>

\* ------------------------------------------------------------------ time
\* the seconds left of the waits in progress: join timeouts and sleeps
PendingWaits ==
    {call[c].remaining : c \in {d \in Calls : call[d].pc = "join"}}
      \cup {thread[c].sleep_left :
                c \in {d \in Calls : thread[d].pc = "sleeping"}}

Less(n, d) == IF n > d THEN n - d ELSE 0

\* A thread that has a step to take now.  The steps of the model take no
\* time: the clock advances only when every thread waits (in join, in
\* sleep, in an endless loop, or for a request to arrive).
UnitRunnable(c) ==
    \/ thread[c].pc \in {"enter_stdout", "enter_stderr", "exit_stderr",
                         "exit_stdout", "store_exception", "store_output",
                         "store_error_output", "store_completed", "end"}
    \/ thread[c].pc = "exec" /\ CurrentStmt(c) # "loop"
    \/ thread[c].pc = "sleeping" /\ thread[c].sleep_left = 0

CallerRunnable(c) ==
    \/ call[c].pc = "join" /\ JoinReturns(c)
    \/ call[c].pc = "check"

HandlerRunnable(r) ==
    /\ req[r].pc = "rows"
    /\ LET rows == req[r].body.fields["data"].items
           i == req[r].i
           needs_call ==
               /\ i <= Len(rows)
               /\ IsList(rows[i])
               /\ Len(rows[i].items) >= 2
               /\ IsStr(rows[i].items[2])
       IN  needs_call => CanStart

AllWait ==
    /\ \A c \in Calls : ~UnitRunnable(c) /\ ~CallerRunnable(c)
    /\ \A r \in Reqs : ~HandlerRunnable(r)

\* d seconds pass, up to the end of one of the waits in progress.  Joins
\* and sleeps wait on the monotonic clock.  time.time() reads the system
\* clock, which may be set back meanwhile: wall is what time.time() -
\* start_time gives, elapsed the seconds that really passed.
Tick ==
    /\ AllWait
    /\ \E d \in PendingWaits, back \in {0, MaxSetBack} :
         /\ d > 0
         /\ call' = [c \in Calls |->
                       IF call[c].pc \in {"join", "check"}
                       THEN [call[c] EXCEPT !.elapsed = @ + d,
                                            !.wall = @ + d - back,
                                            !.remaining = Less(@, d)]
                       ELSE call[c]]
         /\ thread' = [c \in Calls |->
                         [thread[c] EXCEPT !.sleep_left = Less(@, d)]]
    /\ UNCHANGED <<sys_stdout, sys_stderr, stdout_buffer, stderr_buffer,
                   execution_state, req>>

\* ------------------------------------------------------- request bodies
SingleBody(code) == JObj([k \in {"code"} |-> JStr(code)])

SingleBodyWithTimeout(code, timeout) ==
    JObj([k \in {"code", "timeout"} |->
            IF k = "code" THEN JStr(code) ELSE timeout])

Row(index, code) == JArr(<<index, code>>)

BatchBody(rows) == JObj([k \in {"data"} |-> rows])

\* The bodies the clients of the model send.
BodyList ==
    << SingleBody("print('x')"),
       SingleBody("print('x'); print(1/0)"),
       SingleBody("sys.stderr.write('w')"),
       SingleBody("print('a"),
       SingleBodyWithTimeout("print('x'); while True: pass", JInt(1)),
       SingleBodyWithTimeout("time.sleep(1); print('x')", JInt(5)),
       SingleBodyWithTimeout("time.sleep(1); print('x')", JInt(1)),
       SingleBody("print('x'); raise Empty()"),
       SingleBody("print('x'); sys.exit()"),
       BatchBody(JArr(<< Row(JInt(0), JStr("print('x')")),
                         Row(JInt(1), JStr("time.sleep(1); print('x')")) >>)),
       BatchBody(JArr(<< Row(JInt(0), JStr("print('x')")), JInt(5) >>)),
       BatchBody(JArr(<< Row(JInt(7), JInt(42)),
                         Row(JInt(7), JStr("print('a")) >>)),
       BatchBody(JInt(5)),
       JObj([k \in {} |-> JNull]),
       JObj([k \in {"query"} |-> JStr("select 1")]),
       SingleBodyWithTimeout("print('x')", JInt(0)),
       JObj([k \in {"code"} |-> JInt(42)]),
       SingleBodyWithTimeout("print('x')", JInt(0 - 1)),
       SingleBodyWithTimeout("print('x')", JInt(MaxLegacyTimeout + 1)),
       SingleBodyWithTimeout("print('x')", JFloat(5)),
       SingleBodyWithTimeout("print('x')", JStr("5")),
       SingleBodyWithTimeout("print('x')", JNull),
       SingleBodyWithTimeout("print('x')", JBool(FALSE)),
       SingleBodyWithTimeout("print('x')", JBool(TRUE)),
       JObj([k \in {"code", "timeout"} |->
               IF k = "code" THEN JInt(42) ELSE JStr("5")]),
       JObj([k \in {"code"} |-> JNull]),
       NotJson,
       JInt(5),
       JStr("some data"),
       JStr("code"),
       JArr(<< JInt(1) >>),
       JArr(<< JStr("code") >>),
       JArr(<< >>),
       BatchBody(JArr(<< >>)),
       JObj([k \in {"data", "code", "timeout"} |->
               CASE k = "data" -> JArr(<< Row(JInt(0), JStr("print('x')")) >>)
                 [] k = "code" -> JStr("sys.stderr.write('w')")
                 [] k = "timeout" -> JInt(5)]),
       JObj([k \in {"data", "code"} |->
               IF k = "data" THEN JInt(5) ELSE JStr("print('x')")]),
       JObj([k \in {"data", "code"} |->
               IF k = "data" THEN JArr(<< JInt(5) >>)
               ELSE JStr("print('x')")]),
       JObj([k \in {"data", "timeout"} |->
               IF k = "timeout" THEN JInt(1)
               ELSE JArr(<< JArr(<< JInt(3),
                                    JStr("print('x'); while True: pass"),
                                    JInt(1) >>) >>)]) >>

\* The bodies sent where every call is followed to its return: code that
\* hangs, code that sleeps as long as its timeout, a batch of two such rows,
\* and code that ends at once, with and without an exception.
HangingBodyList ==
    << SingleBody("sys.stderr.write('w')"),
       SingleBody("print('a"),
       SingleBodyWithTimeout("print('x'); while True: pass", JInt(1)),
       SingleBodyWithTimeout("time.sleep(1); print('x')", JInt(1)),
       BatchBody(JArr(<< Row(JInt(0), JStr("print('x'); while True: pass")),
                         Row(JInt(1), JStr("print('x'); sys.exit()")) >>)),
       JObj([k \in {} |-> JNull]) >>

\* ------------------------------------------------------------ responses
\* jsonify({"success": False, "error": message}), status
ErrorResponse(status, message) ==
    [NoResponse EXCEPT !.status = status, !.kind = "message",
                       !.message = message]

\* jsonify(result): status 200
ResultResponse(result) ==
    [NoResponse EXCEPT !.status = 200, !.kind = "result", !.result = result]

\* jsonify({"data": results}): status 200
BatchResponse(results) ==
    [NoResponse EXCEPT !.status = 200, !.kind = "batch", !.data = results]

Responded(r, response) ==
    [req[r] EXCEPT !.pc = "done", !.response = response]

\* (mutant) the pre-built result without its error text
CodeNotStringResult_NoError == InitialResult

\* the pre-built result of a row whose code is no string (lines 260-265)
CodeNotStringResult ==
    [InitialResult EXCEPT !.error = CodeMustBeStringError]

\* handle_legacy_format's check of the timeout (line 296)
TimeoutOk(timeout) ==
    /\ IsInt(timeout)
    /\ IntValue(timeout) > 0
    /\ IntValue(timeout) <= MaxLegacyTimeout

\* (mutant) the request's timeout not read
LegacyTimeout_NotRead(data) == JInt(DefaultTimeout)

\* data.get('timeout', 30)
LegacyTimeout(data) ==
    IF "timeout" \in DOMAIN data.fields THEN data.fields["timeout"]
    ELSE JInt(DefaultTimeout)

\* (mutant) the 'code' field tested before the 'data' field
RouteOf_CodeFirst(data) ==
    IF data = NotJson THEN "error"
    ELSE IF ~Truthy(data) THEN "missing"
    ELSE IF Contains("code", data) = "TypeError" THEN "error"
    ELSE IF Contains("code", data) = "true" THEN "legacy"
    ELSE IF Contains("data", data) = "true" THEN "snowflake"
    ELSE "invalid"

\* Where execute_code sends the body (lines 207-232): "missing",
\* "snowflake", "legacy", "invalid", or "error" when get_json() or "in"
\* raises and "except Exception" (line 227) answers
RouteOf(data) ==
    IF data = NotJson THEN "error"
    ELSE IF ~Truthy(data) THEN "missing"
    ELSE IF Contains("data", data) = "TypeError" THEN "error"
    ELSE IF Contains("data", data) = "true" THEN "snowflake"
    ELSE IF Contains("code", data) = "true" THEN "legacy"
    ELSE "invalid"

\* What a handler does before its first engine call: "respond" with a
\* response, "rows" to enter the batch loop, or "call" the engine
\* handle_snowflake_format, lines 237-247
SnowflakeEntry(data) ==
    IF data.t # "object"
    THEN [do |-> "respond",
          response |-> ErrorResponse(500, "Error processing Snowflake format")]
    ELSE IF ~IsList(data.fields["data"])
    THEN [do |-> "respond",
          response |-> ErrorResponse(400, "'data' must be an array")]
    ELSE [do |-> "rows", response |-> NoResponse]

\* handle_legacy_format, lines 287-300
LegacyEntry(data) ==
    IF data.t # "object"
    THEN [do |-> "respond",
          response |-> ErrorResponse(500, "Error processing legacy format")]
    ELSE IF ~IsStr(data.fields["code"])
    THEN [do |-> "respond",
          response |-> ErrorResponse(400, "'code' parameter must be a string")]
    ELSE IF ~TimeoutOk(LegacyTimeout(data))
    THEN [do |-> "respond",
          response |-> ErrorResponse(400,
              "'timeout' must be an integer between 1 and 300 seconds")]
    ELSE [do |-> "call", response |-> NoResponse]

\* execute_code (the route) up to the handler's first step
Entry(data) ==
    CASE RouteOf(data) = "missing" ->
           [do |-> "respond",
            response |-> ErrorResponse(400, "Missing request body")]
      [] RouteOf(data) = "error" ->
           [do |-> "respond",
            response |-> ErrorResponse(500, "Internal server error")]
      [] RouteOf(data) = "snowflake" -> SnowflakeEntry(data)
      [] RouteOf(data) = "legacy" -> LegacyEntry(data)
      [] OTHER ->
           [do |-> "respond",
            response |-> ErrorResponse(400, "Invalid request format")]

\* requests are numbered in the order they arrive
MayArrive(r) ==
    /\ req[r].pc = "idle"
    /\ \A q \in Reqs : q < r => req[q].pc # "idle"

\* POST /execute with a body that ends in a response without engine call
ExecuteRespond(r, bodies) ==
    /\ MayArrive(r)
    /\ \E k \in DOMAIN bodies :
         /\ Entry(bodies[k]).do = "respond"
         /\ req' = [req EXCEPT ![r] =
                      [Responded(r, Entry(bodies[k]).response)
                         EXCEPT !.body = bodies[k]]]
    /\ UNCHANGED <<sys_stdout, sys_stderr, stdout_buffer, stderr_buffer,
                   execution_state, thread, call>>

\* POST /execute with a batch body whose 'data' is a list: the handler
\* enters its loop over the rows
ExecuteSnowflake(r, bodies) ==
    /\ MayArrive(r)
    /\ \E k \in DOMAIN bodies :
         /\ Entry(bodies[k]).do = "rows"
         /\ req' = [req EXCEPT ![r] =
                      [InitialRequest EXCEPT !.pc = "rows", !.mode = "batch",
                                             !.body = bodies[k], !.i = 1]]
    /\ UNCHANGED <<sys_stdout, sys_stderr, stdout_buffer, stderr_buffer,
                   execution_state, thread, call>>

\* POST /execute with a valid single-mode body: execute_python_code(code,
\* timeout) is called; it starts its thread, or thread.start() raises and
\* the handler responds with the fault result
ExecuteLegacy(r, bodies) ==
    /\ MayArrive(r)
    /\ CanStart
    /\ \E k \in DOMAIN bodies, fault \in BOOLEAN :
         /\ Entry(bodies[k]).do = "call"
         /\ LET data == bodies[k]
                code == data.fields["code"].s
                timeout == IntValue(LegacyTimeout(data))
                c == NextCall
                arrived == [InitialRequest EXCEPT !.mode = "single",
                                                  !.body = data, !.cur = c]
            IN  IF fault
                THEN /\ call' = [call EXCEPT
                                   ![c] = FaultedCall(r, 0, code, timeout)]
                     /\ thread' = thread
                     /\ req' = [req EXCEPT ![r] =
                                  [arrived EXCEPT
                                     !.pc = "done",
                                     !.response = ResultResponse(FaultResult)]]
                ELSE /\ call' = [call EXCEPT
                                   ![c] = StartedCall(r, 0, code, timeout)]
                     /\ thread' = [thread EXCEPT ![c].pc = "enter_stdout"]
                     /\ req' = [req EXCEPT ![r] = [arrived EXCEPT !.pc = "wait"]]
    /\ UNCHANGED <<sys_stdout, sys_stderr, stdout_buffer, stderr_buffer,
                   execution_state>>

\* the rows of a batch request
RowsOf(r) == req[r].body.fields["data"].items

\* "not isinstance(row, list) or len(row) < 2" (line 249)
RowMalformed(row) == ~IsList(row) \/ Len(row.items) < 2

\* (mutant) a timeout the caller supplied taken in place of the fixed one:
\* the row's third position, else the top-level 'timeout' field
SnowflakeTimeout_FromRequest(data, row) ==
    IF Len(row.items) >= 3 /\ IsInt(row.items[3])
    THEN IntValue(row.items[3])
    ELSE IF "timeout" \in DOMAIN data.fields /\ IsInt(data.fields["timeout"])
         THEN IntValue(data.fields["timeout"])
         ELSE BatchTimeout

\* the timeout of every engine call of a batch (line 247); neither the
\* request nor the row is looked at
SnowflakeTimeout(data, row) == BatchTimeout

\* One iteration of handle_snowflake_format's loop (lines 248-273), or the
\* return after the last row (line 275)
SnowflakeRow(r) ==
    /\ req[r].pc = "rows"
    /\ LET rows == RowsOf(r)
           i == req[r].i
       IN  IF i > Len(rows)
           THEN /\ req' = [req EXCEPT
                             ![r] = Responded(r, BatchResponse(req[r].results))]
                /\ UNCHANGED <<call, thread>>
           ELSE IF RowMalformed(rows[i])
           THEN /\ req' = [req EXCEPT ![r] = Responded(r, ErrorResponse(400,
                    "Each row must be an array with at least [row_index, code]"))]
                /\ UNCHANGED <<call, thread>>
           ELSE IF ~IsStr(rows[i].items[2])
           THEN /\ req' = [req EXCEPT
                             ![r].results = Append(@,
                                 <<rows[i].items[1], CodeNotStringResult>>),
                             ![r].i = i + 1]
                /\ UNCHANGED <<call, thread>>
           ELSE /\ CanStart
                /\ \E fault \in BOOLEAN :
                     IF fault
                     THEN /\ call' = [call EXCEPT ![NextCall] =
                                FaultedCall(r, i, rows[i].items[2].s,
                                            SnowflakeTimeout(req[r].body,
                                                             rows[i]))]
                          /\ thread' = thread
                          /\ req' = [req EXCEPT
                                ![r].results = Append(@,
                                    <<rows[i].items[1], FaultResult>>),
                                ![r].i = i + 1]
                     ELSE /\ call' = [call EXCEPT ![NextCall] =
                                StartedCall(r, i, rows[i].items[2].s,
                                            SnowflakeTimeout(req[r].body,
                                                             rows[i]))]
                          /\ thread' = [thread EXCEPT
                                ![NextCall].pc = "enter_stdout"]
                          /\ req' = [req EXCEPT ![r].pc = "wait",
                                                ![r].cur = NextCall]
    /\ UNCHANGED <<sys_stdout, sys_stderr, stdout_buffer, stderr_buffer,
                   execution_state>>

\* (mutant) the batch handler numbering its results 0, 1, 2, ... in place
\* of passing the row's own index through
Collected_DenseIndex(r, result) ==
    IF req[r].mode = "batch"
    THEN [req[r] EXCEPT !.pc = "rows", !.i = @ + 1,
                        !.results = Append(@, <<JInt(req[r].i - 1), result>>)]
    ELSE Responded(r, ResultResponse(result))

\* (mutant) the single-mode handler answering a failed execution with an
\* error status
Collected_FailureIsError(r, result) ==
    IF req[r].mode = "batch"
    THEN [req[r] EXCEPT !.pc = "rows", !.i = @ + 1,
                        !.results = Append(@,
                            <<RowsOf(r)[req[r].i].items[1], result>>)]
    ELSE IF result.success
         THEN Responded(r, ResultResponse(result))
         ELSE Responded(r, ErrorResponse(500, "Execution failed"))

\* What the handler does with the result execute_python_code returned: the
\* batch handler appends [row_index, result] and goes on with the next row
\* (line 273), the single-mode handler responds with it (line 307)
Collected(r, result) ==
    IF req[r].mode = "batch"
    THEN [req[r] EXCEPT !.pc = "rows", !.i = @ + 1,
                        !.results = Append(@,
                            <<RowsOf(r)[req[r].i].items[1], result>>)]
    ELSE Responded(r, ResultResponse(result))

\* lines 131-170: the is_alive() test, the classification, execution_time
\* = time.time() - start_time, and the return to the handler that called
Classify(c) ==
    /\ call[c].pc = "check"
    /\ LET result ==
             [ClassifyResult(IsAlive(c), execution_state[c], call[c].timeout)
                EXCEPT !.execution_time = call[c].wall]
       IN  /\ call' = [call EXCEPT ![c].pc = "returned",
                                   ![c].found_alive = IsAlive(c),
                                   ![c].result = result]
           /\ req' = [req EXCEPT ![call[c].owner] = Collected(call[c].owner,
                                                              result)]
    /\ UNCHANGED <<sys_stdout, sys_stderr, stdout_buffer, stderr_buffer,
                   execution_state, thread>>

\* ------------------------------------------------------- specification
Next ==
    \/ \E r \in Reqs :
         \/ ExecuteRespond(r, BodyList)
         \/ ExecuteSnowflake(r, BodyList)
         \/ ExecuteLegacy(r, BodyList)
         \/ SnowflakeRow(r)
    \/ \E c \in Calls :
         \/ UnitEnterStdout(c)
         \/ UnitEnterStderr(c)
         \/ UnitPrint(c)
         \/ UnitWriteStderr(c)
         \/ UnitSleep(c)
         \/ UnitWake(c)
         \/ UnitExitStderr(c)
         \/ UnitExitStdout(c)
         \/ UnitStoreException(c)
         \/ UnitStoreOutput(c)
         \/ UnitStoreErrorOutput(c)
         \/ UnitStoreCompleted(c)
         \/ UnitEnd(c)
         \/ Join(c)
         \/ Classify(c)
    \/ Tick

Spec == Init /\ [][Next]_vars

\* The steps of call c's execution thread and of its caller, and of request
\* r's handler once the request has arrived.
UnitStep(c) ==
    \/ UnitEnterStdout(c)
    \/ UnitEnterStderr(c)
    \/ UnitPrint(c)
    \/ UnitWriteStderr(c)
    \/ UnitSleep(c)
    \/ UnitWake(c)
    \/ UnitExitStderr(c)
    \/ UnitExitStdout(c)
    \/ UnitStoreException(c)
    \/ UnitStoreOutput(c)
    \/ UnitStoreErrorOutput(c)
    \/ UnitStoreCompleted(c)
    \/ UnitEnd(c)

CallerStep(c) == Join(c) \/ Classify(c)

HandlerStep(r) == SnowflakeRow(r)

\* The service under the bodies of HangingBodyList
HangingNext ==
    \/ \E r \in Reqs :
         \/ ExecuteRespond(r, HangingBodyList)
         \/ ExecuteSnowflake(r, HangingBodyList)
         \/ ExecuteLegacy(r, HangingBodyList)
         \/ SnowflakeRow(r)
    \/ \E c \in Calls :
         \/ UnitStep(c)
         \/ CallerStep(c)
    \/ Tick

\* The scheduler runs every thread that has a step to take, and time
\* passes; requests need not arrive.
FairSpec ==
    /\ Init
    /\ [][HangingNext]_vars
    /\ WF_vars(Tick)
    /\ \A c \in Calls : WF_vars(UnitStep(c)) /\ WF_vars(CallerStep(c))
    /\ \A r \in Reqs : WF_vars(HandlerStep(r))

\* ================================================================ claims
Returned(c) == call[c].pc = "returned"

IsTimeoutResult(result) ==
    /\ result.error.shape = "string"
    /\ result.error.prefix = "Code execution timed out after N seconds"

\* C1: every call of execute_python_code returns to its caller, whatever
\* the submitted code does (also code that never terminates).
C1_AlwaysReturns ==
    \A c \in Calls : (call[c].pc = "join") ~> Returned(c)

\* a call has returned while its thread still runs an endless loop
C1_Witness ==
    \E c \in Calls :
        /\ Returned(c)
        /\ thread[c].pc = "exec"
        /\ CurrentStmt(c) = "loop"

\* C2: when the thread is still alive after the wait, the result is
\* success=false, the timeout message with the call's timeout, and empty
\* output, whatever the code wrote before.
C2_TimeoutResult ==
    \A c \in Calls :
        Returned(c) /\ call[c].found_alive =>
            /\ call[c].result.success = FALSE
            /\ call[c].result.error = TimeoutError(call[c].timeout)
            /\ call[c].result.output = <<>>

\* a timed-out call whose code had written to its stdout buffer
C2_Witness ==
    \E c \in Calls :
        /\ Returned(c)
        /\ call[c].found_alive
        /\ stdout_buffer[c] # <<>>
        /\ thread[c].wrote_out # <<>>

\* C3 (as stated): a unit that ends before the timeout elapses is never
\* reported as timed out, and a unit still running when the timeout elapses
\* (the join returned with the thread alive) is always reported as timed
\* out.
C3_WhicheverFirst ==
    \A c \in Calls :
        Returned(c) =>
            /\ thread[c].ended_in_time => ~IsTimeoutResult(call[c].result)
            /\ call[c].join_timed_out => IsTimeoutResult(call[c].result)

\* C3 (amended): a unit that ends before the timeout elapses is never
\* reported as timed out; the result is the timeout result exactly when
\* the thread is alive at the is_alive() test that follows the join, so a
\* unit that ends between the join's return and that test is classified
\* from its own outcome.
C3_AliveAtTest ==
    \A c \in Calls :
        Returned(c) =>
            /\ thread[c].ended_in_time => ~IsTimeoutResult(call[c].result)
            /\ IsTimeoutResult(call[c].result) <=> call[c].found_alive
            /\ ~call[c].found_alive /\ execution_state[c].completed =>
                   call[c].result.output = execution_state[c].output

\* the join timed out, the thread ended before the is_alive() test, and
\* the call reports the code's own outcome
C3_Witness ==
    \E c \in Calls :
        /\ Returned(c)
        /\ call[c].join_timed_out
        /\ ~call[c].found_alive
        /\ call[c].result.success

\* C4: each result's output is exactly the text its own code wrote to
\* stdout, also when execution units overlap.
C4_CaptureScoped ==
    \A c \in Calls :
        Returned(c) /\ ~call[c].found_alive /\ execution_state[c].completed =>
            call[c].result.output = thread[c].wrote_out

\* C5: output a unit produces after its timeout was reported (the tokens
\* below zero) appears in no result the service returns.
C5_LateOutputDiscarded ==
    \A c \in Calls :
        Returned(c) =>
            /\ \A k \in DOMAIN call[c].result.output :
                   call[c].result.output[k] > 0
            /\ \A k \in DOMAIN call[c].result.error.text :
                   call[c].result.error.text[k] > 0

\* C6: every result has success => error = null, and error = null => the
\* captured stderr text of the run is empty.
C6_SuccessErrorStderr ==
    \A c \in Calls :
        Returned(c) =>
            /\ call[c].result.success => call[c].result.error.shape = "null"
            /\ call[c].result.error.shape = "null" =>
                   execution_state[c].error_output = <<>>

\* a successful result next to a failed one whose run captured stderr text
C6_Witness ==
    \E c, d \in Calls :
        /\ Returned(c)
        /\ call[c].result.success
        /\ Returned(d)
        /\ execution_state[d].error_output # <<>>
        /\ ~call[d].result.success

\* the code of call c ran to its end without raising, and its thread had
\* ended when the caller tested is_alive()
CompletedWithoutRaising(c) ==
    /\ Returned(c)
    /\ thread[c].pc = "dead"
    /\ ~call[c].found_alive
    /\ Prog(call[c].code).compiles
    /\ thread[c].exc = NoException

\* C7: code that completes without raising gives success=false and error =
\* the stderr text when that text is not empty, success=true and error =
\* null when it is empty, and output = the captured stdout text either way.
C7_CompletionByStderr ==
    \A c \in Calls :
        CompletedWithoutRaising(c) =>
            /\ execution_state[c].error_output # <<>> =>
                   /\ call[c].result.success = FALSE
                   /\ call[c].result.error =
                          StderrError(execution_state[c].error_output)
            /\ execution_state[c].error_output = <<>> =>
                   /\ call[c].result.success = TRUE
                   /\ call[c].result.error = ErrNull
            /\ call[c].result.output = execution_state[c].output

\* a failed run with both stdout and stderr text captured
C7_Witness ==
    \E c \in Calls :
        /\ CompletedWithoutRaising(c)
        /\ execution_state[c].error_output # <<>>
        /\ execution_state[c].output # <<>>

\* C8: code that raises an exception that is no syntax error gives
\* success=false, a structured error with the exception's class name and
\* text, and output = the text written to stdout before the raise.
C8_RuntimeException ==
    \A c \in Calls :
        /\ Returned(c)
        /\ ~call[c].found_alive
        /\ thread[c].exc.is_exception
        /\ ~thread[c].exc.is_syntax
        => /\ call[c].result.success = FALSE
           /\ call[c].result.error.shape = "object"
           /\ call[c].result.error.type = thread[c].exc.type
           /\ call[c].result.error.message = thread[c].exc.message
           /\ call[c].result.output = thread[c].wrote_out

\* C9: code with a syntax defect gives success=false, an error string with
\* the syntax prefix, empty output, and status 200 in single mode.
C9_SyntaxDefect ==
    \A c \in Calls :
        /\ Returned(c)
        /\ thread[c].pc = "dead"
        /\ ~call[c].found_alive
        /\ ~Prog(call[c].code).compiles
        =>  /\ call[c].result.success = FALSE
            /\ call[c].result.error.shape = "string"
            /\ call[c].result.error.prefix = "Syntax Error: "
            /\ call[c].result.output = <<>>
            /\ req[call[c].owner].mode = "single" =>
                   /\ req[call[c].owner].response.status = 200
                   /\ req[call[c].owner].response.result = call[c].result

\* C10: a batch request answered with status 400 has made no engine call.
C10_ValidationBeforeExecution ==
    \A r \in Reqs :
        req[r].mode = "batch" /\ req[r].response.status = 400 =>
            \A c \in Calls : call[c].owner # r

\* the engine calls request r made for row k of its batch
RowCalls(r, k) == {c \in Calls : call[c].owner = r /\ call[c].row = k}

\* request r is a batch whose rows are all arrays of two or more positions,
\* and its handler has responded
ValidBatchDone(r) ==
    /\ req[r].mode = "batch"
    /\ req[r].pc = "done"
    /\ \A k \in DOMAIN RowsOf(r) : ~RowMalformed(RowsOf(r)[k])

\* C11: in a structurally valid batch a row whose code is no string yields,
\* at its own position, the pre-built result (success=false, empty output,
\* the "must be a string" error, execution time 0) and no engine call, and
\* every row with string code is executed by exactly one engine call.
C11_NonStringCodeInline ==
    \A r \in Reqs :
        ValidBatchDone(r) =>
            \A k \in DOMAIN RowsOf(r) :
                IF IsStr(RowsOf(r)[k].items[2])
                THEN Cardinality(RowCalls(r, k)) = 1
                ELSE /\ RowCalls(r, k) = {}
                     /\ k \in DOMAIN req[r].response.data
                     /\ req[r].response.data[k][1] = RowsOf(r)[k].items[1]
                     /\ req[r].response.data[k][2].success = FALSE
                     /\ req[r].response.data[k][2].output = <<>>
                     /\ req[r].response.data[k][2].error =
                            CodeMustBeStringError
                     /\ req[r].response.data[k][2].execution_time = 0

\* a batch answered whose first row has the code 42 and whose second row
\* was executed by the engine
C11_Witness ==
    \E r \in Reqs :
        /\ ValidBatchDone(r)
        /\ Len(RowsOf(r)) = 2
        /\ ~IsStr(RowsOf(r)[1].items[2])
        /\ \E c \in RowCalls(r, 2) : Returned(c) /\ thread[c].pc = "dead"

\* C12: a structurally valid batch is answered with status 200 and a data
\* sequence as long as the input, whose k-th entry pairs the k-th row's
\* index value, unchanged, with the result of the k-th row's code.
C12_BatchOrderAndIndex ==
    \A r \in Reqs :
        ValidBatchDone(r) =>
            /\ req[r].response.status = 200
            /\ req[r].response.kind = "batch"
            /\ Len(req[r].response.data) = Len(RowsOf(r))
            /\ \A k \in DOMAIN RowsOf(r) :
                   /\ req[r].response.data[k][1] = RowsOf(r)[k].items[1]
                   /\ IsStr(RowsOf(r)[k].items[2]) =>
                          \E c \in RowCalls(r, k) :
                              req[r].response.data[k][2] = call[c].result

\* a batch answered whose two rows carry the same index, which is not
\* their position, the second with an executed result
C12_Witness ==
    \E r \in Reqs :
        /\ ValidBatchDone(r)
        /\ Len(RowsOf(r)) = 2
        /\ RowsOf(r)[1].items[1] = RowsOf(r)[2].items[1]
        /\ RowsOf(r)[2].items[1] # JInt(1)
        /\ \E c \in RowCalls(r, 2) : thread[c].pc = "dead"

\* request r has arrived with a single-mode body: an object with a 'code'
\* field and no 'data' field
SingleMode(r) ==
    /\ req[r].pc # "idle"
    /\ req[r].body.t = "object"
    /\ "code" \in DOMAIN req[r].body.fields
    /\ "data" \notin DOMAIN req[r].body.fields

\* v is a JSON integer in 1..300 (true and false are no JSON integers)
JsonIntegerInRange(v) ==
    /\ v.t = "int"
    /\ v.n >= 1
    /\ v.n <= MaxLegacyTimeout

\* the engine calls made for request r
CallsOf(r) == {c \in Calls : call[c].owner = r}

\* C13: a single-mode request whose timeout is provided and is no JSON
\* integer in 1..300 (zero, negative, above 300, a float, a string, null, a
\* boolean) is answered with status 400, and the engine is never called
\* for it.
C13_TimeoutValidated ==
    \A r \in Reqs :
        /\ SingleMode(r)
        /\ IsStr(req[r].body.fields["code"])
        /\ "timeout" \in DOMAIN req[r].body.fields
        /\ ~JsonIntegerInRange(req[r].body.fields["timeout"])
        =>  /\ CallsOf(r) = {}
            /\ req[r].pc = "done" => req[r].response.status = 400

\* the body has, at its top level, neither the field 'data' nor the field
\* 'code': it is no JSON text, no JSON object, or an object without them
NeitherField(body) ==
    \/ body = NotJson
    \/ body.t # "object"
    \/ /\ body.t = "object"
       /\ "data" \notin DOMAIN body.fields
       /\ "code" \notin DOMAIN body.fields

\* C14: a request whose body is unparseable, or parses to a JSON value with
\* neither a top-level 'data' nor a top-level 'code' field (values that are
\* no objects included), is answered with status 400 and makes no engine
\* call.
C14_NeitherFieldIsClientError ==
    \A r \in Reqs :
        req[r].pc # "idle" /\ NeitherField(req[r].body) =>
            /\ CallsOf(r) = {}
            /\ req[r].pc = "done" => req[r].response.status = 400

\* request r is a valid single-mode request: string code, and a timeout
\* that is omitted or a JSON integer in 1..300
ValidSingle(r) ==
    /\ SingleMode(r)
    /\ IsStr(req[r].body.fields["code"])
    /\ "timeout" \in DOMAIN req[r].body.fields =>
           JsonIntegerInRange(req[r].body.fields["timeout"])

\* C15: a valid single-mode request causes exactly one engine call, and
\* its response is status 200 with that call's result as the body, whether
\* the result has success=true or success=false.
C15_SingleCallStatus200 ==
    \A r \in Reqs :
        ValidSingle(r) =>
            /\ Cardinality(CallsOf(r)) = 1
            /\ req[r].pc = "done" =>
                   /\ req[r].response.status = 200
                   /\ req[r].response.kind = "result"
                   /\ \E c \in CallsOf(r) :
                          /\ Returned(c)
                          /\ req[r].response.result = call[c].result

\* two valid single-mode requests answered, one with a successful result
\* and one with a timeout result
C15_Witness ==
    \E r, q \in Reqs :
        /\ ValidSingle(r)
        /\ req[r].pc = "done"
        /\ req[r].response.result.success
        /\ ValidSingle(q)
        /\ req[q].pc = "done"
        /\ IsTimeoutResult(req[q].response.result)

\* C16: in single mode a 'code' value that is no string is answered with
\* status 400 and no engine call, whatever the timeout field holds; with
\* string code the engine is called with the request's timeout when that
\* is an integer in 1..300, and with 30 when the timeout field is omitted.
C16_CodeCheckedTimeoutPassed ==
    \A r \in Reqs :
        SingleMode(r) =>
            IF ~IsStr(req[r].body.fields["code"])
            THEN /\ CallsOf(r) = {}
                 /\ req[r].pc = "done" => req[r].response.status = 400
            ELSE IF "timeout" \notin DOMAIN req[r].body.fields
            THEN /\ CallsOf(r) # {}
                 /\ \A c \in CallsOf(r) : call[c].timeout = DefaultTimeout
            ELSE JsonIntegerInRange(req[r].body.fields["timeout"]) =>
                 /\ CallsOf(r) # {}
                 /\ \A c \in CallsOf(r) :
                        call[c].timeout = req[r].body.fields["timeout"].n

\* a request with the code 42 and a timeout field answered, next to a
\* request whose call got the request's own timeout, which is not 30
C16_Witness ==
    \E r, q \in Reqs :
        /\ SingleMode(r)
        /\ ~IsStr(req[r].body.fields["code"])
        /\ "timeout" \in DOMAIN req[r].body.fields
        /\ req[r].pc = "done"
        /\ ValidSingle(q)
        /\ "timeout" \in DOMAIN req[q].body.fields
        /\ \E c \in CallsOf(q) :
               /\ Returned(c)
               /\ call[c].timeout # DefaultTimeout

WritesOnly(code) ==
    /\ Prog(code).compiles
    /\ \A k \in DOMAIN Prog(code).stmts : Prog(code).stmts[k] \in {"out", "err"}

\* The results of two runs of the same code agree in success, output and
\* error.  Every token of such code stands for the same text, so two texts
\* are equal when they have the same number of tokens.
SameOutcome(a, b) ==
    /\ a.success = b.success
    /\ Len(a.output) = Len(b.output)
    /\ [a.error EXCEPT !.text = <<>>] = [b.error EXCEPT !.text = <<>>]
    /\ Len(a.error.text) = Len(b.error.text)

\* C18: two executions of the same side-effect-free code with the same
\* timeout return the same output, success and error, whatever else runs
\* before them or at the same time.
C18_Idempotent ==
    \A c, d \in Calls :
        /\ Returned(c)
        /\ Returned(d)
        /\ thread[c].pc = "dead"
        /\ thread[d].pc = "dead"
        /\ call[c].code = call[d].code
        /\ call[c].timeout = call[d].timeout
        /\ WritesOnly(call[c].code)
        => SameOutcome(call[c].result, call[d].result)

\* C19: the execution_time of every result is the time that elapsed from
\* the start of the call to the moment its outcome was determined: never
\* negative, and at least the timeout when the call timed out.
C19_ExecutionTimeElapsed ==
    \A c \in Calls :
        Returned(c) =>
            /\ call[c].result.execution_time = call[c].elapsed
            /\ call[c].result.execution_time >= 0
            /\ call[c].found_alive =>
                   call[c].result.execution_time >= call[c].timeout

\* C20: for a runtime exception raised by the submitted code the traceback
\* field of the structured error is the stack trace of that exception: it
\* names the exception, and is not the trace of another or of no exception.
C20_TracebackOfException ==
    \A c \in Calls :
        /\ Returned(c)
        /\ thread[c].pc = "dead"
        /\ call[c].result.error.shape = "object"
        => call[c].result.error.traceback = FormatExc(thread[c].exc)

\* the error is null or has one of the three shapes: the syntax-error
\* string, the captured stderr text, the {type, message, traceback} object
ErrorShapeKnown(error) ==
    \/ error = ErrNull
    \/ error.shape = "string" /\ error.prefix = "Syntax Error: "
    \/ error.shape = "string" /\ error.prefix = "" /\ error.text # <<>>
    \/ error.shape = "object"

\* call c is the only call made so far
RanAlone(c) == \A d \in Calls \ {c} : call[d].pc = "unused"

\* C21: for a unit that ended before the timeout, however its code ended
\* (normal return, or any raised exception, SystemExit included), the
\* error is null or of one of the three shapes, and output holds the text
\* written to stdout before the code ended.
C21_ErrorShapes ==
    \A c \in Calls :
        /\ Returned(c)
        /\ thread[c].pc = "dead"
        /\ thread[c].ended_in_time
        => /\ ErrorShapeKnown(call[c].result.error)
           /\ RanAlone(c) => call[c].result.output = thread[c].wrote_out

\* C22: once every execution unit that was started has finished, the
\* process's sys.stdout and sys.stderr are the streams they were before the
\* first call, in whatever order the units started and finished.
C22_StreamsRestored ==
    (\A c \in Calls : ~IsAlive(c)) =>
        /\ sys_stdout = ProcessStream
        /\ sys_stderr = ProcessStream

\* C23: the caller reads the exception, output and error_output fields of
\* execution_state only when the thread has terminated, so the result holds
\* the final values the thread wrote; when the thread was found alive the
\* result holds nothing of execution_state.
C23_ReadsAfterThreadEnd ==
    \A c \in Calls :
        Returned(c) =>
            IF call[c].found_alive
            THEN /\ call[c].result.output = <<>>
                 /\ call[c].result.error = TimeoutError(call[c].timeout)
            ELSE /\ ~IsAlive(c)
                 /\ thread[c].pc = "dead" =>
                        [call[c].result EXCEPT !.execution_time = 0] =
                            ClassifyResult(FALSE, execution_state[c],
                                           call[c].timeout)

\* a call returned the timeout result, and its thread went on to store
\* its output and to set "completed" afterwards
C23_Witness ==
    \E c \in Calls :
        /\ Returned(c)
        /\ call[c].found_alive
        /\ execution_state[c].completed
        /\ execution_state[c].output # <<>>

\* thread.start() raised in call c: the call has returned and no thread
\* ever ran for it
EngineFaulted(c) == Returned(c) /\ thread[c].pc = "unstarted"

\* C24: when the engine's own control logic faults (starting the thread
\* raises), execute_python_code returns a result in place of raising:
\* success=false, a structured error that describes the fault, empty
\* output, and execution_time set; a single-mode handler answers 200 with
\* that result.
C24_EngineFaultResult ==
    \A c \in Calls :
        EngineFaulted(c) =>
            /\ call[c].result.success = FALSE
            /\ call[c].result.error.shape = "object"
            /\ call[c].result.error.type = ThreadStartExc.type
            /\ call[c].result.error.message = ThreadStartExc.message
            /\ call[c].result.error.traceback = FormatExc(ThreadStartExc)
            /\ call[c].result.output = <<>>
            /\ call[c].result.execution_time = call[c].elapsed
            /\ req[call[c].owner].mode = "single" =>
                   /\ req[call[c].owner].response.status = 200
                   /\ req[call[c].owner].response.result = call[c].result

\* a single-mode request answered with the result of a faulted call, while
\* the unit of an earlier call is still alive
C24_Witness ==
    \E c, d \in Calls :
        /\ EngineFaulted(c)
        /\ req[call[c].owner].mode = "single"
        /\ req[call[c].owner].pc = "done"
        /\ IsAlive(d)

\* the code never ends: it runs into an endless loop
NeverTerminates(code) ==
    /\ Prog(code).compiles
    /\ \E k \in DOMAIN Prog(code).stmts : Prog(code).stmts[k] = "loop"

\* C25: there is no ceiling on the units alive at the same time: the unit
\* of every call answered with the timeout result for non-terminating code
\* keeps running, and as long as the run has a request and a call left the
\* next request is taken and its unit started at once, whatever units are
\* alive.
C25_NoCeiling ==
    /\ \A c \in Calls :
           /\ Returned(c)
           /\ call[c].found_alive
           /\ NeverTerminates(call[c].code)
           => IsAlive(c)
    /\ \A r \in Reqs :
           /\ req[r].pc = "idle"
           /\ \A q \in Reqs : q < r => req[q].pc # "idle"
           /\ FreeCalls # {}
           => ENABLED ExecuteLegacy(r, BodyList)

\* every call of the run was answered with the timeout result and all
\* their units are running at the same time
C25_Witness ==
    \A c \in Calls :
        /\ Returned(c)
        /\ call[c].found_alive
        /\ NeverTerminates(call[c].code)
        /\ IsAlive(c)
        /\ req[call[c].owner].pc = "done"

\* request r has arrived with a body that holds both the top-level field
\* 'data' and the top-level field 'code'
BothFields(r) ==
    /\ req[r].pc # "idle"
    /\ req[r].body.t = "object"
    /\ "data" \in DOMAIN req[r].body.fields
    /\ "code" \in DOMAIN req[r].body.fields

\* the messages of the batch handler's two 400 responses
BatchErrorMessages ==
    {"'data' must be an array",
     "Each row must be an array with at least [row_index, code]"}

====
